---- MODULE Spec2Model ----
(***************************************************************************)
(* Model of src-tauri/src/lib.rs: the one-slot mailbox AppState.opened_file *)
(* (Arc<Mutex<Option<String>>>), the RunEvent::Opened handler that fills it *)
(* and emits "open-file", and the get_opened_file command that drains it.   *)
(*                                                                          *)
(* Strings are sequences of bytes (Rust String = UTF-8 bytes).  An          *)
(* Option<String> is the empty set (None) or a singleton (Some(s)).         *)
(***************************************************************************)
EXTENDS Integers, Sequences, FiniteSets, TLC

\* ------------------------------------------------------------------ bounds

\* Open-file notifications dispatched in one run of Spec.
MaxOpened ==
  2

\* Identifiers carried by all the notifications of one run of Spec together.
MaxUrls ==
  2

\* Identifiers in the notification batch of SpecBatch.
MaxBatch ==
  3

\* get_opened_file invocations in one run.
MaxQueries ==
  2

\* ----------------------------------------------------------------- strings

\* Printable ASCII, code 32 first (code 96, the grave accent, by name).
Ascii ==
  <<
    " ", "!", "\"", "#", "$", "%", "&", "'", "(", ")", "*", "+", ",", "-", ".", "/",
    "0", "1", "2", "3", "4", "5", "6", "7", "8", "9", ":", ";", "<", "=", ">", "?",
    "@", "A", "B", "C", "D", "E", "F", "G", "H", "I", "J", "K", "L", "M", "N", "O",
    "P", "Q", "R", "S", "T", "U", "V", "W", "X", "Y", "Z", "[", "\\", "]", "^", "_",
    "GRAVE", "a", "b", "c", "d", "e", "f", "g", "h", "i", "j", "k", "l", "m", "n", "o",
    "p", "q", "r", "s", "t", "u", "v", "w", "x", "y", "z", "{", "|", "}", "~"
  >>

Ord(c) ==
  31 + (CHOOSE i \in DOMAIN Ascii : Ascii[i] = c)

\* The bytes of a string literal written as a tuple of characters.
Bytes(s) ==
  [i \in 1..Len(s) |-> Ord(s[i])]

\* str::starts_with
starts_with(s, prefix) ==
  /\ Len(s) >= Len(prefix)
  /\ SubSeq(s, 1, Len(prefix)) = prefix

\* str::ends_with
ends_with(s, suffix) ==
  /\ Len(s) >= Len(suffix)
  /\ SubSeq(s, Len(s) - Len(suffix) + 1, Len(s)) = suffix

\* "file://" (line 41)
FILE_SCHEME ==
  Bytes(<<"f", "i", "l", "e", ":", "/", "/">>)

\* ".md", ".markdown", ".txt" (lines 49-51)
EXT_MD ==
  Bytes(<<".", "m", "d">>)

EXT_MARKDOWN ==
  Bytes(<<".", "m", "a", "r", "k", "d", "o", "w", "n">>)

EXT_TXT ==
  Bytes(<<".", "t", "x", "t">>)

\* url_str[7..]: the identifier without its first Len("file://") bytes.
strip_scheme(url_str) ==
  SubSeq(url_str, Len(FILE_SCHEME) + 1, Len(url_str))

\* ------------------------------------------------------- urlencoding::decode

IsHexDigit(b) ==
  \/ b \in 48..57
  \/ b \in 65..70
  \/ b \in 97..102

HexVal(b) ==
  IF b \in 48..57 THEN b - 48
  ELSE IF b \in 65..70 THEN b - 55
  ELSE b - 87

\* urlencoding::decode_binary: every %XY with two hex digits becomes the byte
\* 16*X+Y; a '%' not followed by two hex digits is kept literally.
RECURSIVE decode_binary(_)
decode_binary(s) ==
  IF s = <<>> THEN <<>>
  ELSE IF s[1] = 37 /\ Len(s) >= 3 /\ IsHexDigit(s[2]) /\ IsHexDigit(s[3])
    THEN <<16 * HexVal(s[2]) + HexVal(s[3])>> \o decode_binary(SubSeq(s, 4, Len(s)))
  ELSE <<s[1]>> \o decode_binary(Tail(s))

IsCont(s, i) ==
  /\ i <= Len(s)
  /\ s[i] \in 128..191

\* String::from_utf8 succeeds: the bytes are well-formed UTF-8.
RECURSIVE Utf8Valid(_)
Utf8Valid(s) ==
  IF s = <<>> THEN TRUE
  ELSE LET b == s[1] IN
    IF b < 128 THEN Utf8Valid(Tail(s))
    ELSE IF b \in 194..223
      THEN IsCont(s, 2) /\ Utf8Valid(SubSeq(s, 3, Len(s)))
    ELSE IF b \in 224..239
      THEN /\ IsCont(s, 2) /\ IsCont(s, 3)
           /\ (b = 224 => s[2] >= 160)
           /\ (b = 237 => s[2] <= 159)
           /\ Utf8Valid(SubSeq(s, 4, Len(s)))
    ELSE IF b \in 240..244
      THEN /\ IsCont(s, 2) /\ IsCont(s, 3) /\ IsCont(s, 4)
           /\ (b = 240 => s[2] >= 144)
           /\ (b = 244 => s[2] <= 143)
           /\ Utf8Valid(SubSeq(s, 5, Len(s)))
    ELSE FALSE

\* Variant: the percent-decoding step is left out.
decode_skip(raw) ==
  raw

\* Variant: a failed decoding yields the empty string (unwrap_or_default).
decode_or_empty(raw) ==
  IF Utf8Valid(decode_binary(raw)) THEN decode_binary(raw) ELSE <<>>

\* Variant: the decoded bytes are used whether or not they are UTF-8.
decode_lossy(raw) ==
  decode_binary(raw)

\* urlencoding::decode(&file_path).map(|s| s.to_string()).unwrap_or(file_path):
\* the decoded string, or the raw one when the decoded bytes are not UTF-8
\* (d is the outcome of the one call of decode_binary).
decode_or_raw(raw) ==
  CHOOSE r \in {IF Utf8Valid(d) THEN d ELSE raw : d \in {decode_binary(raw)}} : TRUE

\* Variant: the scheme test is left out.
is_any_url(url_str) ==
  TRUE

\* The test of line 41.
is_file_url(url_str) ==
  starts_with(url_str, FILE_SCHEME)

\* Variant: the extension test is left out.
has_any_ext(path) ==
  TRUE

\* The test of lines 49-51.
has_accepted_ext(path) ==
  \/ ends_with(path, EXT_MD)
  \/ ends_with(path, EXT_MARKDOWN)
  \/ ends_with(path, EXT_TXT)

\* The path an identifier yields at line 47.
path_of(url_str) ==
  decode_or_raw(strip_scheme(url_str))

\* An identifier reaches the store/emit block of lines 53-60.
accepted(url_str) ==
  /\ is_file_url(url_str)
  /\ \E p \in {path_of(url_str)} : has_accepted_ext(p)

\* ------------------------------------------------------------------ inputs

UrlA ==
  Bytes(<<"f", "i", "l", "e", ":", "/", "/", "/", "t", "m", "p", "/", "a", ".", "m", "d">>)

UrlWeb ==
  Bytes(<<"h", "t", "t", "p", "s", ":", "/", "/", "e", "x", "a", "m", "p", "l", "e", ".", "c", "o", "m", "/", "x">>)

UrlExe ==
  Bytes(<<"f", "i", "l", "e", ":", "/", "/", "/", "t", "m", "p", "/", "b", ".", "e", "x", "e">>)

UrlNotes ==
  Bytes(<<"f", "i", "l", "e", ":", "/", "/", "/", "t", "m", "p", "/", "M", "y", "%", "2", "0", "N", "o", "t", "e", "s", ".", "m", "d">>)

UrlTxt ==
  Bytes(<<"f", "i", "l", "e", ":", "/", "/", "/", "n", "o", "t", "e", ".", "t", "x", "t">>)

UrlBadEnc ==
  Bytes(<<"f", "i", "l", "e", ":", "/", "/", "/", "t", "m", "p", "/", "x", "%", "F", "F", ".", "m", "d">>)

UrlWebMd ==
  Bytes(<<"h", "t", "t", "p", "s", ":", "/", "/", "e", "x", "a", "m", "p", "l", "e", ".", "c", "o", "m", "/", "y", ".", "m", "d">>)

UrlEncExt ==
  Bytes(<<"f", "i", "l", "e", ":", "/", "/", "/", "t", "m", "p", "/", "c", "%", "2", "E", "m", "d">>)

UrlMarkdown ==
  Bytes(<<"f", "i", "l", "e", ":", "/", "/", "/", "r", ".", "m", "a", "r", "k", "d", "o", "w", "n">>)

UrlBadExe ==
  Bytes(<<"f", "i", "l", "e", ":", "/", "/", "/", "t", "m", "p", "/", "z", "%", "F", "F", ".", "e", "x", "e">>)

PathA ==
  Bytes(<<"/", "t", "m", "p", "/", "a", ".", "m", "d">>)

PathNotes ==
  Bytes(<<"/", "t", "m", "p", "/", "M", "y", " ", "N", "o", "t", "e", "s", ".", "m", "d">>)

PathTxt ==
  Bytes(<<"/", "n", "o", "t", "e", ".", "t", "x", "t">>)

PathC ==
  Bytes(<<"/", "t", "m", "p", "/", "c", ".", "m", "d">>)

PathMarkdown ==
  Bytes(<<"/", "r", ".", "m", "a", "r", "k", "d", "o", "w", "n">>)

PathBadRaw ==
  Bytes(<<"/", "t", "m", "p", "/", "x", "%", "F", "F", ".", "m", "d">>)

\* Identifiers of the notifications of Spec: two accepted, one rejected.
RaceUrls ==
  {UrlA, UrlNotes, UrlExe}

\* Identifiers of the single notification of SpecBatch.
Urls ==
  {UrlA, UrlWeb, UrlExe, UrlNotes, UrlTxt, UrlBadEnc, UrlWebMd, UrlEncExt, UrlMarkdown,
   UrlBadExe}

\* Sequences over S of length at most n.
SeqUpTo(S, n) ==
  UNION {[1..k -> S] : k \in 0..n}

\* ------------------------------------------------------------------- state

\* The threads that invoke get_opened_file.
Queries ==
  {"q1", "q2"}

None ==
  {}

Some(x) ==
  {x}

VARIABLES
  opened_file,  \* AppState.opened_file: None or Some(path)
  lock,         \* owner of the Mutex: "free", "handler" or a member of Queries
  window,       \* get_webview_window("main") is Some
  h_pc,         \* position of the run-loop callback
  urls,         \* identifiers of the current batch not yet iterated
  url_str,      \* the callback's local url_str
  file_path,    \* the callback's local file_path
  q_pc,         \* position of each get_opened_file invocation
  q_ret,        \* the Option each invocation got from file.take()
  emitted,      \* payloads of the "open-file" events emitted, in order
  opened_count, \* events the run loop has dispatched to the callback so far
  url_count,    \* how many identifiers those events carried
  notified,     \* history: the identifiers those events carried, in order
  query_count,  \* get_opened_file invocations so far
  stored,       \* history: every mailbox write, [url, path, pushed], in order
  resident,     \* history: index in stored of the write now in the mailbox, 0 if none
  overwritten,  \* history: writes replaced by a later write while resident
  taken,        \* history: every completed take, [val, id, n], in order
  before,       \* history: the mailbox when the callback took the lock
  q_id,         \* history: the write each invocation read
  q_from        \* history: what had been handled when each invocation began

vars ==
  <<opened_file, lock, window, h_pc, urls, url_str, file_path, q_pc, q_ret, emitted,
    opened_count, url_count, notified, query_count, stored, resident, overwritten, taken, before,
    q_id, q_from>>

hvars ==
  <<h_pc, urls, url_str, file_path>>

counts ==
  <<opened_count, url_count, notified>>

qvars ==
  <<q_pc, q_ret, q_id, q_from, query_count>>

ghost ==
  <<stored, resident, overwritten, taken, before>>

\* Variant: the slot starts as Some(String::new()) instead of None.
InitSomeEmpty ==
  /\ opened_file = Some(<<>>)
  /\ lock = "free"
  /\ window \in BOOLEAN
  /\ h_pc = "idle"
  /\ urls = <<>>
  /\ url_str = <<>>
  /\ file_path = <<>>
  /\ q_pc = [t \in Queries |-> "idle"]
  /\ q_ret = [t \in Queries |-> None]
  /\ emitted = <<>>
  /\ opened_count = 0
  /\ url_count = 0
  /\ notified = <<>>
  /\ query_count = 0
  /\ stored = <<>>
  /\ resident = 0
  /\ overwritten = {}
  /\ taken = <<>>
  /\ before = None
  /\ q_id = [t \in Queries |-> 0]
  /\ q_from = [t \in Queries |-> [n |-> 0, idle |-> FALSE]]

\* AppState { opened_file: Arc::new(Mutex::new(None)) }, before the run loop.
Init ==
  /\ opened_file = None
  /\ lock = "free"
  /\ window \in BOOLEAN
  /\ h_pc = "idle"
  /\ urls = <<>>
  /\ url_str = <<>>
  /\ file_path = <<>>
  /\ q_pc = [t \in Queries |-> "idle"]
  /\ q_ret = [t \in Queries |-> None]
  /\ emitted = <<>>
  /\ opened_count = 0
  /\ url_count = 0
  /\ notified = <<>>
  /\ query_count = 0
  /\ stored = <<>>
  /\ resident = 0
  /\ overwritten = {}
  /\ taken = <<>>
  /\ before = None
  /\ q_id = [t \in Queries |-> 0]
  /\ q_from = [t \in Queries |-> [n |-> 0, idle |-> FALSE]]

\* ------------------------------------------------- RunEvent::Opened handler

\* The run loop calls the callback with RunEvent::Opened { urls }.
Dispatch(batch) ==
  /\ h_pc = "idle"
  /\ opened_count' = opened_count + 1
  /\ url_count' = url_count + Len(batch)
  /\ notified' = notified \o batch
  /\ urls' = batch
  /\ h_pc' = "for"
  /\ q_from' = [t \in Queries |-> [q_from[t] EXCEPT !.idle = FALSE]]
  /\ UNCHANGED <<opened_file, lock, window, url_str, file_path, q_pc, q_ret,
                 q_id, query_count, emitted, ghost>>

\* An open-file notification, one of the several of a run of Spec.
Opened ==
  /\ h_pc = "idle"
  /\ opened_count < MaxOpened
  /\ \E batch \in SeqUpTo(RaceUrls, MaxUrls - url_count) : Dispatch(batch)

\* The only open-file notification of a run of SpecBatch.
OpenedOnce ==
  /\ h_pc = "idle"
  /\ opened_count = 0
  /\ \E batch \in SeqUpTo(Urls, MaxBatch) : Dispatch(batch)

\* Any other RunEvent: the `_ => {}` arm (line 65) returns at once.
OtherEvent ==
  /\ h_pc = "idle"
  /\ opened_count < MaxOpened
  /\ opened_count' = opened_count + 1
  /\ UNCHANGED <<opened_file, lock, window, hvars, qvars, emitted, url_count,
                 notified, ghost>>

\* for url in urls: the end of the batch returns from the callback.
ForDone ==
  /\ h_pc = "for"
  /\ urls = <<>>
  /\ h_pc' = "idle"
  /\ UNCHANGED <<opened_file, lock, window, urls, url_str, file_path, qvars, emitted,
                 counts, ghost>>

\* Variant: a filtered identifier ends the loop (break instead of falling through).
ForSkipBreak ==
  /\ h_pc = "for"
  /\ urls # <<>>
  /\ ~accepted(Head(urls))
  /\ urls' = <<>>
  /\ UNCHANGED <<opened_file, lock, window, h_pc, url_str, file_path, qvars, emitted,
                 counts, ghost>>

\* One iteration whose identifier fails line 41 or lines 49-51: nothing happens.
ForSkip ==
  /\ h_pc = "for"
  /\ urls # <<>>
  /\ ~accepted(Head(urls))
  /\ urls' = Tail(urls)
  /\ UNCHANGED <<opened_file, lock, window, h_pc, url_str, file_path, qvars, emitted,
                 counts, ghost>>

\* One iteration whose identifier passes both tests: on to line 54.
ForAccept ==
  /\ h_pc = "for"
  /\ urls # <<>>
  /\ accepted(Head(urls))
  /\ url_str' = Head(urls)
  /\ file_path' = path_of(Head(urls))
  /\ urls' = Tail(urls)
  /\ h_pc' = "lock"
  /\ UNCHANGED <<opened_file, lock, window, qvars, emitted, counts, ghost>>

\* Variant: the callback writes without waiting for the Mutex.
HandlerLockNoWait ==
  /\ h_pc = "lock"
  /\ lock' = "handler"
  /\ before' = opened_file
  /\ h_pc' = "store"
  /\ UNCHANGED <<opened_file, window, urls, url_str, file_path, qvars, emitted,
                 counts, stored, resident, overwritten, taken>>

\* let mut state = opened_file.lock().unwrap();
HandlerLock ==
  /\ h_pc = "lock"
  /\ lock = "free"
  /\ lock' = "handler"
  /\ before' = opened_file
  /\ h_pc' = "store"
  /\ UNCHANGED <<opened_file, window, urls, url_str, file_path, qvars, emitted,
                 counts, stored, resident, overwritten, taken>>

\* Variant: the write is the else-branch of the window test.
HandlerStoreUnlessWindow ==
  /\ h_pc = "store"
  /\ IF window
       THEN UNCHANGED <<opened_file, resident, overwritten>>
       ELSE /\ opened_file' = Some(file_path)
            /\ resident' = Len(stored) + 1
            /\ overwritten' = IF resident = 0 THEN overwritten
                                ELSE overwritten \cup {resident}
  /\ stored' = Append(stored, [url |-> url_str, path |-> file_path, pushed |-> FALSE])
  /\ h_pc' = "emit"
  /\ UNCHANGED <<lock, window, urls, url_str, file_path, qvars, emitted, counts,
                 taken, before>>

\* Variant: the write happens only when the window exists.
HandlerStoreOnlyIfWindow ==
  /\ h_pc = "store"
  /\ IF ~window
       THEN UNCHANGED <<opened_file, resident, overwritten>>
       ELSE /\ opened_file' = Some(file_path)
            /\ resident' = Len(stored) + 1
            /\ overwritten' = IF resident = 0 THEN overwritten
                                ELSE overwritten \cup {resident}
  /\ stored' = Append(stored, [url |-> url_str, path |-> file_path, pushed |-> FALSE])
  /\ h_pc' = "emit"
  /\ UNCHANGED <<lock, window, urls, url_str, file_path, qvars, emitted, counts,
                 taken, before>>

\* Variant: a pending path is kept, the new one dropped (first writer wins).
HandlerStoreIfEmpty ==
  /\ h_pc = "store"
  /\ IF opened_file # None
       THEN UNCHANGED <<opened_file, resident, overwritten>>
       ELSE /\ opened_file' = Some(file_path)
            /\ resident' = Len(stored) + 1
            /\ overwritten' = overwritten
  /\ stored' = Append(stored, [url |-> url_str, path |-> file_path, pushed |-> FALSE])
  /\ h_pc' = "emit"
  /\ UNCHANGED <<lock, window, urls, url_str, file_path, qvars, emitted, counts,
                 taken, before>>

\* *state = Some(file_path.clone());
HandlerStore ==
  /\ h_pc = "store"
  /\ opened_file' = Some(file_path)
  /\ stored' = Append(stored, [url |-> url_str, path |-> file_path, pushed |-> FALSE])
  /\ resident' = Len(stored) + 1
  /\ overwritten' = IF resident = 0 THEN overwritten ELSE overwritten \cup {resident}
  /\ h_pc' = "emit"
  /\ UNCHANGED <<lock, window, urls, url_str, file_path, qvars, emitted, counts,
                 taken, before>>

\* Variant: the event carries the identifier instead of the decoded path.
HandlerEmitUrl ==
  /\ h_pc = "emit"
  /\ IF window
       THEN /\ emitted' = Append(emitted, url_str)
            /\ stored' = [stored EXCEPT ![Len(stored)].pushed = TRUE]
       ELSE UNCHANGED <<emitted, stored>>
  /\ h_pc' = "drop"
  /\ UNCHANGED <<opened_file, lock, window, urls, url_str, file_path, qvars,
                 counts, resident, overwritten, taken, before>>

\* Variant: a path that was pushed is removed from the mailbox again.
HandlerEmitClear ==
  /\ h_pc = "emit"
  /\ IF window
       THEN /\ emitted' = Append(emitted, file_path)
            /\ stored' = [stored EXCEPT ![Len(stored)].pushed = TRUE]
            /\ opened_file' = None
            /\ resident' = 0
       ELSE UNCHANGED <<emitted, stored, opened_file, resident>>
  /\ h_pc' = "drop"
  /\ UNCHANGED <<lock, window, urls, url_str, file_path, qvars, counts,
                 overwritten, taken, before>>

\* Variant: the newest push is delivered ahead of the earlier ones.
HandlerEmitFront ==
  /\ h_pc = "emit"
  /\ IF window
       THEN /\ emitted' = <<file_path>> \o emitted
            /\ stored' = [stored EXCEPT ![Len(stored)].pushed = TRUE]
       ELSE UNCHANGED <<emitted, stored>>
  /\ h_pc' = "drop"
  /\ UNCHANGED <<opened_file, lock, window, urls, url_str, file_path, qvars,
                 counts, resident, overwritten, taken, before>>

\* if let Some(window) = app_handle.get_webview_window("main")
\*     { let _ = window.emit("open-file", file_path); }
HandlerEmit ==
  /\ h_pc = "emit"
  /\ IF window
       THEN /\ emitted' = Append(emitted, file_path)
            /\ stored' = [stored EXCEPT ![Len(stored)].pushed = TRUE]
       ELSE UNCHANGED <<emitted, stored>>
  /\ h_pc' = "drop"
  /\ UNCHANGED <<opened_file, lock, window, urls, url_str, file_path, qvars,
                 counts, resident, overwritten, taken, before>>

\* Variant: the guard is leaked, so the block ends with the lock still held.
HandlerUnlockKeep ==
  /\ h_pc = "drop"
  /\ url_str' = <<>>
  /\ file_path' = <<>>
  /\ before' = None
  /\ h_pc' = "for"
  /\ UNCHANGED <<opened_file, lock, window, urls, qvars, emitted, counts,
                 stored, resident, overwritten, taken>>

\* The guard `state` goes out of scope at the end of the block (line 61).
HandlerUnlock ==
  /\ h_pc = "drop"
  /\ lock' = "free"
  /\ url_str' = <<>>
  /\ file_path' = <<>>
  /\ before' = None
  /\ h_pc' = "for"
  /\ UNCHANGED <<opened_file, window, urls, qvars, emitted, counts, stored,
                 resident, overwritten, taken>>

\* ---------------------------------------------------------- get_opened_file

\* The UI invokes the command; a thread starts running get_opened_file (the
\* second thread only while the first is busy: the threads are interchangeable).
QueryCall(t) ==
  /\ q_pc[t] = "idle"
  /\ t = "q2" => q_pc["q1"] # "idle"
  /\ query_count < MaxQueries
  /\ query_count' = query_count + 1
  /\ q_pc' = [q_pc EXCEPT ![t] = "lock"]
  /\ q_from' = [q_from EXCEPT ![t] = [n |-> Len(stored), idle |-> h_pc = "idle"]]
  /\ UNCHANGED <<opened_file, lock, window, hvars, q_ret, q_id, emitted, counts,
                 ghost>>

\* Variant: the command reads without waiting for the Mutex.
QueryLockNoWait(t) ==
  /\ q_pc[t] = "lock"
  /\ lock' = t
  /\ q_pc' = [q_pc EXCEPT ![t] = "take"]
  /\ UNCHANGED <<opened_file, window, hvars, q_ret, q_id, q_from, query_count,
                 emitted, counts, ghost>>

\* let mut file = state.opened_file.lock().unwrap();
QueryLock(t) ==
  /\ q_pc[t] = "lock"
  /\ lock = "free"
  /\ lock' = t
  /\ q_pc' = [q_pc EXCEPT ![t] = "take"]
  /\ UNCHANGED <<opened_file, window, hvars, q_ret, q_id, q_from, query_count,
                 emitted, counts, ghost>>

\* Variant: the slot is cleared before it is read, so None is what is read.
QueryTakeAfterClear(t) ==
  /\ q_pc[t] = "take"
  /\ q_ret' = [q_ret EXCEPT ![t] = None]
  /\ q_id' = [q_id EXCEPT ![t] = 0]
  /\ q_pc' = [q_pc EXCEPT ![t] = "clear"]
  /\ UNCHANGED <<opened_file, lock, window, hvars, q_from, query_count,
                 emitted, counts, ghost>>

\* file.take(), first half: mem::replace reads the old content ...
QueryTake(t) ==
  /\ q_pc[t] = "take"
  /\ q_ret' = [q_ret EXCEPT ![t] = opened_file]
  /\ q_id' = [q_id EXCEPT ![t] = resident]
  /\ q_pc' = [q_pc EXCEPT ![t] = "clear"]
  /\ UNCHANGED <<opened_file, lock, window, hvars, q_from, query_count,
                 emitted, counts, ghost>>

\* Variant: the command clones the content and leaves it in the slot (a peek).
QueryClearKeep(t) ==
  /\ q_pc[t] = "clear"
  /\ taken' = Append(taken, [val |-> q_ret[t], id |-> q_id[t], n |-> Len(stored)])
  /\ q_pc' = [q_pc EXCEPT ![t] = "ret"]
  /\ UNCHANGED <<opened_file, resident, lock, window, hvars, q_ret, q_id, q_from,
                 query_count, emitted, counts, stored, overwritten, before>>

\* ... second half: and leaves None in its place.
QueryClear(t) ==
  /\ q_pc[t] = "clear"
  /\ opened_file' = None
  /\ resident' = 0
  /\ taken' = Append(taken, [val |-> q_ret[t], id |-> q_id[t], n |-> Len(stored)])
  /\ q_pc' = [q_pc EXCEPT ![t] = "ret"]
  /\ UNCHANGED <<lock, window, hvars, q_ret, q_id, q_from, query_count,
                 emitted, counts, stored, overwritten, before>>

\* The guard `file` is dropped and the Option is returned to the UI.
QueryReturn(t) ==
  /\ q_pc[t] = "ret"
  /\ lock' = "free"
  /\ q_pc' = [q_pc EXCEPT ![t] = "idle"]
  /\ q_ret' = [q_ret EXCEPT ![t] = None]
  /\ q_id' = [q_id EXCEPT ![t] = 0]
  /\ q_from' = [q_from EXCEPT ![t] = [n |-> 0, idle |-> FALSE]]
  /\ UNCHANGED <<opened_file, window, hvars, query_count, emitted, counts, ghost>>

\* ------------------------------------------------------------- environment

\* The host creates the webview window labelled "main".
WindowCreated ==
  /\ ~window
  /\ window' = TRUE
  /\ UNCHANGED <<opened_file, lock, hvars, qvars, emitted, counts, ghost>>

\* The host destroys it.
WindowDestroyed ==
  /\ window
  /\ window' = FALSE
  /\ UNCHANGED <<opened_file, lock, hvars, qvars, emitted, counts, ghost>>

\* ---------------------------------------------------------- specifications

Next ==
  \/ Opened
  \/ OtherEvent
  \/ ForDone
  \/ ForSkip
  \/ ForAccept
  \/ HandlerLock
  \/ HandlerStore
  \/ HandlerEmit
  \/ HandlerUnlock
  \/ \E t \in Queries : QueryCall(t)
  \/ \E t \in Queries : QueryLock(t)
  \/ \E t \in Queries : QueryTake(t)
  \/ \E t \in Queries : QueryClear(t)
  \/ \E t \in Queries : QueryReturn(t)
  \/ WindowCreated
  \/ WindowDestroyed

Spec ==
  Init /\ [][Next]_vars

\* The steps of the event callback once a notification is being handled, and
\* the steps of one running get_opened_file call.
HandlerStep ==
  \/ ForDone
  \/ ForSkip
  \/ ForAccept
  \/ HandlerLock
  \/ HandlerStore
  \/ HandlerEmit
  \/ HandlerUnlock

QueryStep(t) ==
  \/ QueryLock(t)
  \/ QueryTake(t)
  \/ QueryClear(t)
  \/ QueryReturn(t)

\* Fair scheduling: a thread that can take a step is not held back for ever.
\* When events arrive and when the UI asks is left to the environment.
FairSpec ==
  /\ Spec
  /\ WF_vars(HandlerStep)
  /\ \A t \in Queries : WF_vars(QueryStep(t))

\* One notification with a batch over all the identifiers, and no query.
NextBatch ==
  \/ OpenedOnce
  \/ ForDone
  \/ ForSkip
  \/ ForAccept
  \/ HandlerLock
  \/ HandlerStore
  \/ HandlerEmit
  \/ HandlerUnlock
  \/ WindowCreated
  \/ WindowDestroyed

SpecBatch ==
  Init /\ [][NextBatch]_vars

\* ------------------------------------------------------ vocabulary of claims

\* The latest mailbox write.
LastStored ==
  stored[Len(stored)]

\* The decoded path of each accepted identifier of RaceUrls, written out.
ExpectedPath(u) ==
  IF u = UrlA THEN PathA ELSE PathNotes

\* The identifiers of Urls that are not file:// URLs.
NonLocal ==
  {UrlWeb, UrlWebMd}

\* Invocation t began after the callback had returned from a notification that
\* wrote the mailbox, and no notification has been dispatched since.
AfterHandled(t) ==
  /\ q_from[t].idle
  /\ q_from[t].n >= 1
  /\ q_from[t].n = Len(stored)

\* No take before the latest one has happened since the latest write.
FirstTake ==
  \A k \in 1..(Len(taken) - 1) : taken[k].n < Len(stored)

\* The latest write has not been taken yet.
Untaken ==
  /\ Len(stored) >= 1
  /\ \A k \in DOMAIN taken : taken[k].n < Len(stored)

\* u is one of the identifiers of RaceUrls that pass both filters.
IsRequest(u) ==
  u \in {UrlA, UrlNotes}

\* Exactly one accepted identifier has been notified so far.
OneRequest ==
  Len(SelectSeq(notified, IsRequest)) = 1

\* Its decoded path.
ThePath ==
  ExpectedPath(SelectSeq(notified, IsRequest)[1])

Pushes(p) ==
  Cardinality({i \in DOMAIN emitted : emitted[i] = p})

Returns(p) ==
  Cardinality({k \in DOMAIN taken : taken[k].val = Some(p)})

\* The identifiers of Urls that pass both filters, and the path of each,
\* decoded by hand.
AcceptedUrls ==
  {UrlA, UrlNotes, UrlTxt, UrlBadEnc, UrlEncExt, UrlMarkdown}

LitPath(u) ==
  CASE u = UrlA -> PathA
    [] u = UrlNotes -> PathNotes
    [] u = UrlTxt -> PathTxt
    [] u = UrlBadEnc -> PathBadRaw
    [] u = UrlEncExt -> PathC
    [] u = UrlMarkdown -> PathMarkdown
    [] OTHER -> <<>>

IsAcceptedUrl(u) ==
  u \in AcceptedUrls

\* The identifiers of the notification that the loop has dealt with: those
\* taken from the batch, but for one that still waits to be written.
Processed ==
  SubSeq(notified, 1,
         Len(notified) - Len(urls) - (IF h_pc \in {"lock", "store"} THEN 1 ELSE 0))

\* The identifiers among them that pass both filters.
Requests ==
  SelectSeq(Processed, IsAcceptedUrl)

\* p is the path of an accepted identifier that has been notified: it comes
\* from a file:// identifier, lacks that prefix and ends in an accepted suffix.
IsAcceptedPath(p) ==
  /\ \E i \in DOMAIN notified :
       /\ SubSeq(notified[i], 1, 7) = FILE_SCHEME
       /\ IsRequest(notified[i])
       /\ p = ExpectedPath(notified[i])
  /\ ~starts_with(p, FILE_SCHEME)
  /\ \/ ends_with(p, EXT_MD)
     \/ ends_with(p, EXT_MARKDOWN)
     \/ ends_with(p, EXT_TXT)

\* The writes whose push found the main window.
IsPushed(e) ==
  e.pushed

PushedWrites ==
  SelectSeq(stored, IsPushed)

\* ------------------------------------------------------------------- claims

\* C1 as stated: when the callback has pushed an accepted path to the
\* reachable window, the mailbox is what it was before that identifier.
C1_MailboxUntouchedWhenPushed ==
  (h_pc = "drop" /\ LastStored.pushed) => opened_file = before

\* C1, amended: when the callback has processed an accepted identifier with the
\* window reachable, the path is the last "open-file" payload and the mailbox
\* holds that same path as well, whatever it held before.
C1_PushedAndStored ==
  (h_pc = "drop" /\ LastStored.pushed) =>
    /\ emitted # <<>>
    /\ emitted[Len(emitted)] = file_path
    /\ opened_file = Some(file_path)

C1_Witness ==
  /\ h_pc = "drop"
  /\ LastStored.pushed
  /\ before = None
  /\ opened_file = Some(PathA)

\* C2 as stated: a query begun after a notification that was handled with the
\* window reachable, no other notification in between, returns empty.
C2_EmptyAfterPush ==
  \A t \in Queries :
    (q_pc[t] = "ret" /\ AfterHandled(t) /\ LastStored.pushed) => q_ret[t] = None

\* C2, amended: such a query, when no other query came in between either,
\* returns the pushed path, because the callback stored it too.
C2_PushedPathReturned ==
  \A t \in Queries :
    (q_pc[t] = "ret" /\ AfterHandled(t) /\ LastStored.pushed /\ FirstTake)
      => q_ret[t] = Some(LastStored.path)

C2_Witness ==
  \E t \in Queries :
    /\ q_pc[t] = "ret"
    /\ AfterHandled(t)
    /\ LastStored.pushed
    /\ FirstTake
    /\ emitted = <<PathNotes>>
    /\ q_ret[t] = Some(PathNotes)

\* C3 as stated: for one accepted open request the path reaches the UI exactly
\* once over both channels: never twice, and never lost (once written it has
\* been delivered or is still pending in the mailbox).
C3_ExactlyOnce ==
  OneRequest =>
    /\ Pushes(ThePath) + Returns(ThePath) <= 1
    /\ Len(stored) = 1 =>
         \/ Pushes(ThePath) + Returns(ThePath) >= 1
         \/ opened_file = Some(ThePath)

\* C3, amended: for one accepted open request the path is never lost and
\* reaches the UI at most once per channel, so at most twice: once as a push
\* when the window is reachable, and once as the result of the first query.
C3_OncePerChannel ==
  OneRequest =>
    /\ Pushes(ThePath) <= 1
    /\ Returns(ThePath) <= 1
    /\ Len(stored) = 1 =>
         \/ Pushes(ThePath) + Returns(ThePath) >= 1
         \/ opened_file = Some(ThePath)

C3_Witness ==
  /\ OneRequest
  /\ Pushes(ThePath) = 1
  /\ Returns(ThePath) = 1
  /\ opened_file = None

\* C4: an accepted identifier handled with no window reachable leaves its
\* decoded path in the mailbox, and the next query (no notification and no
\* other query in between) returns exactly that decoded path.
C4_StoredThenReturned ==
  /\ (h_pc = "drop" /\ ~LastStored.pushed)
       => opened_file = Some(ExpectedPath(url_str))
  /\ \A t \in Queries :
       (q_pc[t] = "ret" /\ AfterHandled(t) /\ ~LastStored.pushed /\ FirstTake)
         => q_ret[t] = Some(ExpectedPath(LastStored.url))

C4_Witness ==
  \E t \in Queries :
    /\ q_pc[t] = "ret"
    /\ AfterHandled(t)
    /\ ~LastStored.pushed
    /\ FirstTake
    /\ LastStored.url = UrlNotes
    /\ emitted = <<>>
    /\ q_ret[t] = Some(PathNotes)

\* C5: the write and the read-and-clear exclude each other under the one
\* Mutex; no write is returned by two queries; and every write is in the
\* mailbox, or was returned by a query, or was overwritten by a later write.
C5_MutualExclusion ==
  /\ (h_pc \in {"store", "emit", "drop"}) <=> (lock = "handler")
  /\ \A t \in Queries : (q_pc[t] \in {"take", "clear", "ret"}) <=> (lock = t)
  /\ \A i, j \in DOMAIN taken :
       (i < j /\ taken[i].id # 0) => taken[j].id # taken[i].id
  /\ \A t \in Queries : \A i \in DOMAIN taken :
       (q_pc[t] = "clear" /\ q_id[t] # 0) => taken[i].id # q_id[t]
  /\ \A k \in DOMAIN stored :
       \/ k = resident
       \/ k \in overwritten
       \/ \E i \in DOMAIN taken : taken[i].id = k

C5_Witness ==
  \E t, u \in Queries :
    /\ q_pc[t] = "clear"
    /\ q_id[t] # 0
    /\ q_pc[u] = "lock"
    /\ h_pc = "lock"

\* C6: get_opened_file returns the content it read and has emptied the mailbox
\* before it releases the Mutex; the first take after a write returns that
\* write, and a take that follows a take with no write in between returns empty.
C6_TakeThenEmpty ==
  /\ \A t \in Queries :
       q_pc[t] = "ret" =>
         /\ opened_file = None
         /\ taken # <<>>
         /\ q_ret[t] = taken[Len(taken)].val
  /\ \A k \in DOMAIN taken :
       /\ (k > 1 /\ taken[k - 1].n = taken[k].n) => taken[k].val = None
       /\ (taken[k].n >= 1 /\ (k = 1 \/ taken[k - 1].n < taken[k].n))
            => taken[k].val = Some(stored[taken[k].n].path)

C6_Witness ==
  /\ Len(taken) = 2
  /\ taken[1].val = Some(PathA)
  /\ taken[2].val = None
  /\ taken[1].n = taken[2].n

\* C7: from the completion of a take until the next write the mailbox is empty.
C7_EmptyUntilNextStore ==
  (taken # <<>> /\ taken[Len(taken)].n = Len(stored)) => opened_file = None

C7_Witness ==
  /\ taken # <<>>
  /\ taken[Len(taken)].val # None
  /\ taken[Len(taken)].n = Len(stored)
  /\ h_pc = "lock"
  /\ \A t \in Queries : q_pc[t] = "idle"

\* C8: the mailbox holds at most one path and the last writer wins: a take
\* that returns a path returns the latest write, and a write that was
\* overwritten is never returned by any query.
C8_LastWriterWins ==
  /\ Cardinality(opened_file) <= 1
  /\ \A k \in DOMAIN taken :
       /\ taken[k].val # None =>
            /\ taken[k].id = taken[k].n
            /\ taken[k].val = Some(stored[taken[k].n].path)
       /\ taken[k].id \notin overwritten

C8_Witness ==
  \E k \in DOMAIN taken :
    /\ taken[k].id = 2
    /\ 1 \in overwritten
    /\ stored[1].path = PathA
    /\ stored[2].path = PathNotes
    /\ taken[k].val = Some(PathNotes)

\* C9: a query that holds the Mutex while the callback waits to write has read
\* what was there before (empty when nothing was pending); the write that
\* follows leaves its path in the mailbox; and a write completed before a query
\* began is seen by that query unless another query took it first.
C9_RaceAndVisibility ==
  /\ \A t \in Queries :
       (q_pc[t] = "clear" /\ h_pc = "lock") =>
         q_ret[t] = IF Untaken THEN Some(LastStored.path) ELSE None
  /\ h_pc \in {"emit", "drop"} => opened_file = Some(file_path)
  /\ \A t \in Queries :
       ( /\ q_pc[t] = "ret"
         /\ q_from[t].n >= 1
         /\ \A k \in 1..(Len(taken) - 1) : taken[k].n < q_from[t].n )
       => /\ q_ret[t] # None
          /\ q_id[t] >= q_from[t].n

C9_Witness ==
  \E t \in Queries :
    /\ q_pc[t] = "ret"
    /\ q_ret[t] = None
    /\ h_pc = "lock"
    /\ stored = <<>>

\* C10: an identifier that is not a file:// URL causes no mailbox write and no
\* push; every push carries the path of a write; and of the batch
\* [file:///tmp/a.md, https://example.com/x, file:///tmp/b.exe] only /tmp/a.md
\* is stored or pushed.
C10_NonLocalIgnored ==
  /\ \A k \in DOMAIN stored : stored[k].url \notin NonLocal
  /\ \A i \in DOMAIN emitted :
       \E k \in DOMAIN stored : stored[k].pushed /\ stored[k].path = emitted[i]
  /\ Len(emitted) <= Len(stored)
  /\ notified = <<UrlA, UrlWeb, UrlExe>> =>
       /\ Len(stored) <= 1
       /\ \A k \in DOMAIN stored : stored[k].path = PathA
       /\ \A i \in DOMAIN emitted : emitted[i] = PathA
       /\ opened_file \subseteq {PathA}
       /\ h_pc = "idle" => opened_file = Some(PathA)

C10_Witness ==
  /\ notified = <<UrlA, UrlWeb, UrlExe>>
  /\ h_pc = "idle"
  /\ emitted = <<PathA>>
  /\ opened_file = Some(PathA)

\* C11: a write or a push happens only for a path whose extension, tested
\* after decoding, is .md, .markdown or .txt: file:///tmp/c%2Emd is accepted
\* as /tmp/c.md, and an identifier with another extension writes and pushes
\* nothing.
C11_ExtensionOnDecodedPath ==
  /\ \A k \in DOMAIN stored :
       /\ stored[k].url \notin {UrlExe, UrlBadExe}
       /\ \/ ends_with(stored[k].path, EXT_MD)
          \/ ends_with(stored[k].path, EXT_MARKDOWN)
          \/ ends_with(stored[k].path, EXT_TXT)
  /\ \A i \in DOMAIN emitted :
       \/ ends_with(emitted[i], EXT_MD)
       \/ ends_with(emitted[i], EXT_MARKDOWN)
       \/ ends_with(emitted[i], EXT_TXT)
  /\ (notified = <<UrlExe, UrlEncExt>> /\ h_pc = "idle") =>
       /\ Len(stored) = 1
       /\ stored[1].url = UrlEncExt
       /\ opened_file = Some(PathC)
  /\ (notified = <<UrlExe>> /\ h_pc = "idle") =>
       /\ stored = <<>>
       /\ emitted = <<>>
       /\ opened_file = None

C11_Witness ==
  /\ notified = <<UrlExe, UrlEncExt>>
  /\ h_pc = "idle"
  /\ emitted = <<PathC>>
  /\ opened_file = Some(PathC)

\* C12: the path written and the path pushed are one string, the identifier
\* without file:// and percent-decoded: file:///tmp/My%20Notes.md gives
\* '/tmp/My Notes.md' on both channels.
C12_DecodedPathOnBothChannels ==
  /\ \A k \in DOMAIN stored :
       /\ stored[k].url = UrlNotes => stored[k].path = PathNotes
       /\ stored[k].url = UrlA => stored[k].path = PathA
       /\ stored[k].url = UrlEncExt => stored[k].path = PathC
  /\ (h_pc = "drop" /\ url_str = UrlNotes) =>
       /\ opened_file = Some(PathNotes)
       /\ LastStored.pushed =>
            /\ emitted # <<>>
            /\ emitted[Len(emitted)] = PathNotes
  /\ Len(emitted) = Cardinality({k \in DOMAIN stored : stored[k].pushed})
  /\ \A i \in DOMAIN emitted :
       \E k \in DOMAIN stored : stored[k].pushed /\ emitted[i] = stored[k].path

C12_Witness ==
  /\ h_pc = "drop"
  /\ url_str = UrlNotes
  /\ LastStored.pushed
  /\ emitted = <<PathNotes>>
  /\ opened_file = Some(PathNotes)

\* C13: when the percent-decoding of a file:// identifier fails, the callback
\* goes on with the raw path: file:///tmp/x%FF.md passes the extension test as
\* /tmp/x%FF.md and is written (and pushed when the window exists), while
\* file:///tmp/z%FF.exe fails the extension test like any other .exe.
C13_RawPathOnDecodeFailure ==
  /\ \A k \in DOMAIN stored :
       /\ stored[k].url = UrlBadEnc => stored[k].path = PathBadRaw
       /\ stored[k].url # UrlBadExe
  /\ (notified = <<UrlBadEnc>> /\ h_pc = "idle") =>
       /\ Len(stored) = 1
       /\ opened_file = Some(PathBadRaw)
       /\ emitted = IF stored[1].pushed THEN <<PathBadRaw>> ELSE <<>>
  /\ (h_pc = "for" /\ urls # <<>> /\ notified = <<UrlBadEnc>> \o urls) =>
       /\ Len(stored) = 1
       /\ opened_file = Some(PathBadRaw)

C13_Witness ==
  /\ notified = <<UrlBadEnc, UrlA>>
  /\ h_pc = "idle"
  /\ emitted = <<PathBadRaw, PathA>>
  /\ opened_file = Some(PathA)

\* C14 as stated: an identifier whose percent-encoding cannot be decoded is
\* neither written to the mailbox nor pushed.
C14_UndecodableExcluded ==
  /\ \A k \in DOMAIN stored : stored[k].url \notin {UrlBadEnc, UrlBadExe}
  /\ \A i \in DOMAIN emitted : emitted[i] # PathBadRaw

\* C14, amended: such an identifier is excluded only when its raw path fails
\* the extension test; when the raw path has an accepted extension it is
\* written, and pushed when the window exists, still percent-encoded.
C14_UndecodableKeptRaw ==
  /\ \A k \in DOMAIN stored :
       /\ stored[k].url # UrlBadExe
       /\ stored[k].url = UrlBadEnc =>
            /\ stored[k].path = PathBadRaw
            /\ stored[k].path = strip_scheme(UrlBadEnc)
  /\ (notified = <<UrlBadExe, UrlBadEnc>> /\ h_pc = "idle") =>
       /\ Len(stored) = 1
       /\ stored[1].url = UrlBadEnc
       /\ opened_file = Some(PathBadRaw)
       /\ \A i \in DOMAIN emitted : emitted[i] = PathBadRaw

C14_Witness ==
  /\ notified = <<UrlBadExe, UrlBadEnc>>
  /\ h_pc = "idle"
  /\ emitted = <<PathBadRaw>>
  /\ opened_file = Some(PathBadRaw)

\* C15: a rejected identifier does not interrupt the batch: the writes made
\* are, in order, those of the accepted identifiers dealt with so far, each
\* with its own path, as if the rejected ones were absent; after the batch
\* the mailbox holds the path of the last accepted identifier.
C15_RejectedDoNotInterrupt ==
  /\ Len(stored) = Len(Requests)
  /\ \A k \in DOMAIN stored :
       /\ stored[k].url = Requests[k]
       /\ stored[k].path = LitPath(Requests[k])
  /\ h_pc = "idle" =>
       opened_file = IF Requests = <<>> THEN None
                     ELSE Some(LitPath(Requests[Len(Requests)]))

C15_Witness ==
  /\ notified = <<UrlWeb, UrlBadExe, UrlTxt>>
  /\ h_pc = "idle"
  /\ emitted = <<PathTxt>>
  /\ opened_file = Some(PathTxt)

\* C18: only the take of get_opened_file empties the mailbox; only the write
\* of the callback puts a path into it, the path of the identifier at hand;
\* and an event other than the open-file notification leaves it as it is.  So
\* a pending path stays (or is replaced by a later one) until a query.
C18_OnlyTakeEmpties ==
  [][ /\ (opened_file # None /\ opened_file' = None)
           => \E t \in Queries : q_pc[t] = "clear" /\ q_pc'[t] = "ret"
      /\ (opened_file' # opened_file /\ opened_file' # None)
           => /\ h_pc = "store"
              /\ h_pc' = "emit"
              /\ opened_file' = Some(file_path)
      /\ (opened_count' # opened_count /\ h_pc' = "idle")
           => opened_file' = opened_file
      /\ (\E t \in Queries : q_pc'[t] # q_pc[t])
           => opened_file' \in {opened_file, None} ]_vars

C18_Witness ==
  /\ opened_file = Some(PathNotes)
  /\ resident = 2
  /\ 1 \in overwritten
  /\ stored[1].pushed
  /\ stored[2].pushed
  /\ taken = <<>>
  /\ h_pc = "idle"
  /\ opened_count = 2

\* C17: in every reachable state the mailbox is empty or holds the path of
\* an accepted identifier (from a file:// identifier, prefix removed, ending
\* in .md, .markdown or .txt); so is everything get_opened_file reads and
\* returns, and every payload pushed.
C17_OnlyAcceptedPaths ==
  /\ \A p \in opened_file : IsAcceptedPath(p)
  /\ \A t \in Queries : \A p \in q_ret[t] : IsAcceptedPath(p)
  /\ \A k \in DOMAIN taken : \A p \in taken[k].val : IsAcceptedPath(p)
  /\ \A i \in DOMAIN emitted : IsAcceptedPath(emitted[i])

C17_Witness ==
  \E t \in Queries :
    /\ q_pc[t] = "ret"
    /\ q_ret[t] = Some(PathNotes)
    /\ opened_file = None
    /\ emitted = <<PathA, PathNotes>>
    /\ notified = <<UrlA, UrlNotes>>

\* C19: within a notification the pushes are, in batch order, exactly the
\* paths of the accepted identifiers handled while the main window was
\* reachable: one push each, none for a rejected identifier; when the window
\* was reachable for all of them, the pushes are the paths of all accepted
\* identifiers handled so far and the last push is the last one's path.
C19_OnePushPerAcceptedInOrder ==
  /\ Len(stored) = Len(Requests)
  /\ \A k \in DOMAIN stored : stored[k].url = Requests[k]
  /\ emitted = [i \in DOMAIN PushedWrites |-> LitPath(PushedWrites[i].url)]
  /\ (\A k \in DOMAIN stored : stored[k].pushed)
       => /\ emitted = [i \in DOMAIN Requests |-> LitPath(Requests[i])]
          /\ Requests # <<>>
               => emitted[Len(emitted)] = LitPath(Requests[Len(Requests)])

C19_Witness ==
  /\ h_pc = "idle"
  /\ notified = <<UrlA, UrlExe, UrlTxt>>
  /\ emitted = <<PathA, PathTxt>>

\* C16 as stated: the handler holds the lock for the slot write only, so it
\* looks up the window and pushes without the lock; the query holds it for the
\* read-and-clear only; and the lock is free whenever nothing is running.
C16_OnlySlotAccessUnderLock ==
  /\ h_pc = "emit" => lock # "handler"
  /\ \A t \in Queries : lock = t => q_pc[t] \in {"take", "clear", "ret"}
  /\ (h_pc = "idle" /\ \A t \in Queries : q_pc[t] = "idle") => lock = "free"

\* C16, amended: the handler's critical section holds the slot write and also
\* the window lookup and the push, the query's holds the read-and-clear; no
\* step inside either waits for anything, a held lock is always released, and
\* under fair scheduling every started handler invocation and every started
\* get_opened_file call completes.
C16_EveryInvocationCompletes ==
  /\ [](lock = "handler" <=> h_pc \in {"store", "emit", "drop"})
  /\ [](\A t \in Queries : lock = t <=> q_pc[t] \in {"take", "clear", "ret"})
  /\ [](lock = "handler" => ENABLED HandlerStep)
  /\ [](\A t \in Queries : lock = t => ENABLED QueryStep(t))
  /\ (lock # "free") ~> (lock = "free")
  /\ (h_pc # "idle") ~> (h_pc = "idle")
  /\ \A t \in Queries : (q_pc[t] # "idle") ~> (q_pc[t] = "idle")

\* The handler and one query both wait for the lock that another query holds.
C16_Witness ==
  /\ h_pc = "lock"
  /\ lock = "q1"
  /\ q_pc["q1"] = "clear"
  /\ q_pc["q2"] = "lock"

====
